---- MODULE Spec2Model ----
(***************************************************************************)
(* Model of the elastic-package test runner framework:                     *)
(*   - the pipeline test runner (package pipeline, runner.run)             *)
(*   - the xUnit report renderers (reportXUnitFormat, ReportXUnit)         *)
(*                                                                         *)
(* Strings of the program are modelled as sequences of message parts: the  *)
(* empty Go string "" is the empty sequence, errors.Wrap(err, m) puts m in *)
(* front of the parts of err, and err.Error() is the sequence of parts.    *)
(* A nil error is the empty sequence.                                      *)
(***************************************************************************)
EXTENDS Integers, Sequences, FiniteSets, TLC

(* ------------------------------ bounds --------------------------------- *)

\* largest number of entries in the test folder
MaxFiles == 2

\* kinds of directory entries: by extension / reserved suffix
FileKinds == {"json", "log", "csv", "expected", "config"}

\* content of an expected-result (golden) file; "missing" cannot be read
GoldenContents == {"missing", "a", "b"}

\* results the simulate call can produce
Observed == {"a", "b"}

\* sets of pipeline identifiers an install can return
PipelineIDSets == {{"default"}, {"default", "sub"}}

\* largest number of TestResults handed to a reporter
MaxResults == 2

\* largest number of times the same sequence is rendered
MaxRenders == 2

\* grouping keys (test type, package, data stream) of the rendered Results
GroupKeys == {<<"pipeline", "pkg", "ds">>, <<"pipeline", "pkg", "ds2">>,
              <<"pipeline", "pkg2", "ds">>, <<"system", "pkg", "ds">>}

\* the reporter functions a sequence can be rendered with
Reporters == {"reportXUnitFormat", "ReportXUnit"}

(* ------------------------------ state ---------------------------------- *)

VARIABLES
    dir,            \* entries of r.options.TestFolder.Path, in ReadDir order
    generate,       \* r.options.GenerateTestResult
    golden,         \* golden-file store: entry index -> content
    goldenAtStart,  \* the golden-file store when Run was called
    pc,             \* position of runner.run
    testCaseFiles,  \* local testCaseFiles: indices into dir
    idx,            \* position of the range loop over testCaseFiles
    pipelineIDs,    \* local pipelineIDs
    tr,             \* local tr (a TestResult value)
    result,         \* local result of simulatePipelineProcessing
    results,        \* local results slice
    failed,         \* local failed
    retResults,     \* returned []TestResult
    retNil,         \* TRUE when the returned slice is nil
    retErr,         \* returned error
    ops,            \* remote and file operations issued so far, in order
    warned,         \* logger.Warnf was called by the deferred function
    xResults,       \* the []TestResult handed to the reporter
    reporter,       \* the reporter function the sequence is rendered with
    xOut            \* the documents rendered so far, with their trees

runVars == <<dir, generate, golden, goldenAtStart, pc, testCaseFiles, idx,
             pipelineIDs, tr, result, results, failed, retResults, retNil,
             retErr, ops, warned>>

xVars == <<xResults, reporter, xOut>>

vars == <<runVars, xVars>>

(* ------------------------------ helpers -------------------------------- *)

NilErr == <<>>

EmptyString == <<>>

\* errors.Wrap(err, msg)
Wrap(err, msg) == <<msg>> \o err

\* the sentinel errTestCaseFailed
errTestCaseFailed == <<"test case failed">>

\* errors.New("at least one test case failed")
ErrAtLeastOneFailed == <<"at least one test case failed">>

\* tr := testrunner.TestResult{TestType, Package, DataStream}. TimeTaken is
\* left out: it is only ever assigned to the local tr, after the append.
NewTestResult ==
    [TestType |-> "pipeline", Package |-> "pkg", DataStream |-> "ds",
     Name |-> EmptyString, ErrorMsg |-> EmptyString,
     FailureMsg |-> EmptyString]

\* tc.name: the name of the test case loaded from entry f of the folder
TestCaseName(f) == <<"case", ToString(f)>>

\* results = append(results, tr): the slice holds a copy of the value tr
AppendResult(rs, t) == Append(rs, t)

\* the filter of listTestCaseFiles: entries with a reserved suffix are skipped
RECURSIVE ListFiles(_, _)
ListFiles(d, i) ==
    IF i > Len(d) THEN <<>>
    ELSE IF d[i] = "expected" \/ d[i] = "config"
         THEN ListFiles(d, i + 1)
         ELSE <<i>> \o ListFiles(d, i + 1)

\* compareResults(testCasePath, result): the expected result is read from the
\* golden file (readOk: the read succeeds) and compared with the observed one
CompareResults(g, f, observed, readOk) ==
    IF g[f] = "missing" \/ ~readOk
    THEN <<"reading expected test result failed">>
    ELSE IF g[f] = observed THEN NilErr
    ELSE errTestCaseFailed

\* writeTestResult(testCasePath, result): the store after a successful write
WriteTestResult(g, f, observed) == [g EXCEPT ![f] = observed]

\* verifyResults with the comparison made before the golden file is written
VerifyCompareFirst(gen, writeOk, readOk, g, f, observed) ==
    LET e == CompareResults(g, f, observed, readOk)
        c == <<[op |-> "compare", arg |-> f,
                out |-> IF e = errTestCaseFailed THEN "mismatch"
                        ELSE IF e # NilErr THEN "error" ELSE "match"]>>
        w == IF gen
             THEN <<[op |-> "write", arg |-> f,
                     out |-> IF writeOk THEN "ok" ELSE "error"]>>
             ELSE <<>>
    IN [err |-> IF gen /\ ~writeOk
                THEN Wrap(<<"write failed">>, "writing test result failed")
                ELSE IF e = errTestCaseFailed THEN errTestCaseFailed
                ELSE IF e # NilErr
                     THEN Wrap(e, "comparing test results failed")
                     ELSE NilErr,
        golden |-> IF gen /\ writeOk THEN WriteTestResult(g, f, observed)
                   ELSE g,
        ops |-> c \o w]

\* verifyResults writing the golden file whether or not generate is set
VerifyAlwaysWrites(gen, writeOk, readOk, g, f, observed) ==
    IF ~writeOk
    THEN [err |-> Wrap(<<"write failed">>, "writing test result failed"),
          golden |-> g,
          ops |-> <<[op |-> "write", arg |-> f, out |-> "error"]>>]
    ELSE LET g2 == WriteTestResult(g, f, observed)
             e  == CompareResults(g2, f, observed, readOk)
         IN [err |-> IF e = errTestCaseFailed THEN errTestCaseFailed
                     ELSE IF e # NilErr
                          THEN Wrap(e, "comparing test results failed")
                          ELSE NilErr,
             golden |-> g2,
             ops |-> <<[op |-> "write", arg |-> f, out |-> "ok"],
                       [op |-> "compare", arg |-> f,
                        out |-> IF e = errTestCaseFailed THEN "mismatch"
                                ELSE IF e # NilErr THEN "error"
                                ELSE "match"]>>]

\* runner.verifyResults: the error it returns and the store it leaves
\* and the golden-file operations it issued, in order
VerifyResults(gen, writeOk, readOk, g, f, observed) ==
    IF gen /\ ~writeOk
    THEN [err |-> Wrap(<<"write failed">>, "writing test result failed"),
          golden |-> g,
          ops |-> <<[op |-> "write", arg |-> f, out |-> "error"]>>]
    ELSE LET g2 == IF gen THEN WriteTestResult(g, f, observed) ELSE g
             e  == CompareResults(g2, f, observed, readOk)
             w  == IF gen THEN <<[op |-> "write", arg |-> f, out |-> "ok"]>>
                   ELSE <<>>
         IN IF e = errTestCaseFailed
            THEN [err |-> errTestCaseFailed, golden |-> g2,
                  ops |-> w \o <<[op |-> "compare", arg |-> f,
                                  out |-> "mismatch"]>>]
            ELSE IF e # NilErr
            THEN [err |-> Wrap(e, "comparing test results failed"),
                  golden |-> g2,
                  ops |-> w \o <<[op |-> "compare", arg |-> f,
                                  out |-> "error"]>>]
            ELSE [err |-> NilErr, golden |-> g2,
                  ops |-> w \o <<[op |-> "compare", arg |-> f,
                                  out |-> "match"]>>]

\* runner.loadTestCaseFile: the error it returns
LoadTestCaseFile(kind, readOk, configOk, createOk) ==
    IF ~readOk THEN <<"reading input file failed">>
    ELSE IF kind = "json"
         THEN IF createOk THEN NilErr
              ELSE <<"creating test case for events failed">>
    ELSE IF kind = "log"
         THEN IF ~configOk THEN <<"reading config for test case failed">>
              ELSE IF createOk THEN NilErr
              ELSE <<"creating test case for events failed">>
    ELSE <<"unsupported extension for test case file">>

\* the tests of the error of verifyResults without the one for the sentinel
VerdictWithoutSentinel(err) == IF err # NilErr THEN "abort" ELSE "ok"

\* the tests of the error of verifyResults with only the one for the sentinel
VerdictIgnoringErrors(err) ==
    IF err = errTestCaseFailed THEN "failed" ELSE "ok"

\* the two tests of the error of verifyResults in runner.run
VerdictOf(err) ==
    IF err = errTestCaseFailed THEN "failed"
    ELSE IF err # NilErr THEN "abort"
    ELSE "ok"

\* tr declared once before the loop: an iteration starts from what the
\* previous one left in tr
StaleTestResult(prev) == prev

\* the TestResult an iteration starts from: tr is declared inside the loop
\* body, so nothing of the previous iteration's tr (prev) is kept
IterationTestResult(prev) == NewTestResult

\* the tail of runner.run without the test of failed
RunOutcomeIgnoringFailed(f) == NilErr

\* the tail of runner.run: the error returned after the loop
RunOutcome(f) == IF f THEN ErrAtLeastOneFailed ELSE NilErr

(* ------------------------------ Init ----------------------------------- *)

Dirs == UNION {[1..n -> FileKinds] : n \in 0..MaxFiles}

Init ==
    /\ dir \in Dirs
    /\ generate \in BOOLEAN
    /\ golden \in [1..Len(dir) -> GoldenContents]
    /\ \A i \in 1..Len(dir) :
           dir[i] \in {"expected", "config"} => golden[i] = "missing"
    /\ goldenAtStart = golden
    /\ pc = "list"
    /\ testCaseFiles = <<>>
    /\ idx = 1
    /\ pipelineIDs = {}
    /\ tr = NewTestResult
    /\ result = "none"
    /\ results = <<>>
    /\ failed = FALSE
    /\ retResults = <<>>
    /\ retNil = TRUE
    /\ retErr = NilErr
    /\ ops = <<>>
    /\ warned = FALSE
    /\ xResults = <<>>
    /\ reporter = "none"
    /\ xOut = <<>>

(* ------------------------------ actions -------------------------------- *)

\* a return statement before the install succeeded, with the deferred
\* uninstall already registered
ReturnEarlyDeferred(err) ==
    /\ retResults' = <<>>
    /\ retNil' = TRUE
    /\ retErr' = err
    /\ pc' = "defer"

\* a return statement before the defer is registered
ReturnEarly(err) ==
    /\ retResults' = <<>>
    /\ retNil' = TRUE
    /\ retErr' = err
    /\ pc' = "returned"

\* a return statement of the loop with no deferred call registered
ReturnWithoutDefer(rs, err) ==
    /\ retResults' = rs
    /\ retNil' = FALSE
    /\ retErr' = err
    /\ pc' = "returned"

\* a return statement of the loop or after it: the deferred call is pending
Return(rs, err) ==
    /\ retResults' = rs
    /\ retNil' = FALSE
    /\ retErr' = err
    /\ pc' = "defer"

\* testCaseFiles, err := r.listTestCaseFiles()
ListTestCaseFiles ==
    /\ pc = "list"
    /\ \E ok \in BOOLEAN :
         IF ok
         THEN /\ testCaseFiles' = ListFiles(dir, 1)
              /\ pc' = "findRoot"
              /\ UNCHANGED <<retResults, retNil, retErr>>
         ELSE /\ ReturnEarly(Wrap(<<"reading pipeline tests failed">>,
                                  "listing test case definitions failed"))
              /\ UNCHANGED testCaseFiles
    /\ UNCHANGED <<dir, generate, golden, goldenAtStart, idx, pipelineIDs,
                   tr, result, results, failed, ops, warned>>
    /\ UNCHANGED xVars

\* packages.FindDataStreamRootForPath(r.options.TestFolder.Path)
FindDataStreamRoot ==
    /\ pc = "findRoot"
    /\ \/ /\ pc' = "install"
          /\ UNCHANGED <<retResults, retNil, retErr>>
       \/ ReturnEarly(Wrap(<<"lookup failed">>,
                           "locating data_stream root failed"))
       \/ ReturnEarly(<<"data stream root not found">>)
    /\ UNCHANGED <<dir, generate, golden, goldenAtStart, testCaseFiles, idx,
                   pipelineIDs, tr, result, results, failed, ops, warned>>
    /\ UNCHANGED xVars

\* installIngestPipelines(...) and the registration of the deferred uninstall
InstallIngestPipelines ==
    /\ pc = "install"
    /\ \/ \E ids \in PipelineIDSets :
            /\ pipelineIDs' = ids
            /\ ops' = Append(ops, [op |-> "install", arg |-> ids, out |-> "ok"])
            /\ pc' = "loop"
            /\ UNCHANGED <<retResults, retNil, retErr>>
       \/ /\ ReturnEarly(Wrap(<<"install failed">>,
                              "installing ingest pipelines failed"))
          /\ UNCHANGED <<pipelineIDs, ops>>
    /\ UNCHANGED <<dir, generate, golden, goldenAtStart, testCaseFiles, idx,
                   tr, result, results, failed, warned>>
    /\ UNCHANGED xVars

\* one iteration's head: tr := TestResult{...}; tc, err := r.loadTestCaseFile
LoadTestCase ==
    /\ pc = "loop"
    /\ idx <= Len(testCaseFiles)
    /\ \E readOk \in BOOLEAN, configOk \in BOOLEAN, createOk \in BOOLEAN :
         LET f   == testCaseFiles[idx]
             err == LoadTestCaseFile(dir[f], readOk, configOk, createOk)
             t0  == IterationTestResult(tr)
         IN /\ ops' = Append(ops, [op |-> "load", arg |-> f,
                                   out |-> IF err # NilErr THEN "error"
                                           ELSE "ok"])
            /\ IF err # NilErr
               THEN LET werr == Wrap(err, "loading test case failed")
                    IN /\ tr' = [t0 EXCEPT !.ErrorMsg = werr]
                       /\ Return(results, werr)
                       /\ UNCHANGED results
               ELSE /\ tr' = [t0 EXCEPT !.Name = TestCaseName(f)]
                    /\ results' = AppendResult(results, tr')
                    /\ pc' = "simulate"
                    /\ UNCHANGED <<retResults, retNil, retErr>>
    /\ UNCHANGED <<dir, generate, golden, goldenAtStart, testCaseFiles, idx,
                   pipelineIDs, result, failed, warned>>
    /\ UNCHANGED xVars

\* result, err := simulatePipelineProcessing(...)
SimulatePipelineProcessing ==
    /\ pc = "simulate"
    /\ \/ \E r \in Observed :
            /\ result' = r
            /\ ops' = Append(ops, [op |-> "simulate",
                                   arg |-> testCaseFiles[idx], out |-> "ok"])
            /\ pc' = "verify"
            /\ UNCHANGED <<tr, retResults, retNil, retErr>>
       \/ LET werr == Wrap(<<"simulate failed">>,
                           "simulating pipeline processing failed")
          IN /\ tr' = [tr EXCEPT !.ErrorMsg = werr]
             /\ ops' = Append(ops, [op |-> "simulate",
                                    arg |-> testCaseFiles[idx],
                                    out |-> "error"])
             /\ Return(results, werr)
             /\ UNCHANGED result
    /\ UNCHANGED <<dir, generate, golden, goldenAtStart, testCaseFiles, idx,
                   pipelineIDs, results, failed, warned>>
    /\ UNCHANGED xVars

\* err = r.verifyResults(testCaseFile, result) and the two tests of err
VerifyTestCase ==
    /\ pc = "verify"
    /\ \E writeOk \in BOOLEAN, readOk \in BOOLEAN :
         LET f == testCaseFiles[idx]
             v == VerifyResults(generate, writeOk, readOk, golden, f, result)
             d == VerdictOf(v.err)
         IN /\ golden' = v.golden
            /\ ops' = ops \o v.ops
            /\ IF d = "failed"
               THEN /\ failed' = TRUE
                    /\ tr' = [tr EXCEPT !.FailureMsg = v.err]
                    /\ idx' = idx + 1
                    /\ pc' = "loop"
                    /\ UNCHANGED <<retResults, retNil, retErr>>
               ELSE IF d = "abort"
               THEN /\ Return(results,
                              Wrap(v.err, "verifying test result failed"))
                    /\ UNCHANGED <<failed, tr, idx>>
               ELSE /\ idx' = idx + 1
                    /\ pc' = "loop"
                    /\ UNCHANGED <<failed, tr, retResults, retNil, retErr>>
    /\ UNCHANGED <<dir, generate, goldenAtStart, testCaseFiles, pipelineIDs,
                   result, results, warned>>
    /\ UNCHANGED xVars

\* the statements after the loop
FinishLoop ==
    /\ pc = "loop"
    /\ idx > Len(testCaseFiles)
    /\ Return(results, RunOutcome(failed))
    /\ UNCHANGED <<dir, generate, golden, goldenAtStart, testCaseFiles, idx,
                   pipelineIDs, tr, result, results, failed, ops, warned>>
    /\ UNCHANGED xVars

\* the deferred function with the uninstall error put in place of a nil
\* error of the run
DeferredErrorEscalated(err, ok) ==
    IF ok \/ err # NilErr THEN err
    ELSE Wrap(<<"uninstall failed">>, "uninstalling ingest pipelines failed")

\* the error Run returns once the deferred function has run: its err is a
\* local of the closure and run has no named results, so it is the error of
\* the return statement whether the uninstall succeeded (ok) or not
AfterDeferred(err, ok) == err

\* the deferred function uninstalling the entry pipeline only
RunDeferredEntryOnly ==
    /\ pc = "defer"
    /\ \E ok \in BOOLEAN :
         /\ ops' = Append(ops, [op |-> "uninstall", arg |-> {"default"},
                                out |-> IF ok THEN "ok" ELSE "error"])
         /\ warned' = ~ok
         /\ retErr' = AfterDeferred(retErr, ok)
    /\ pc' = "returned"
    /\ UNCHANGED <<dir, generate, golden, goldenAtStart, testCaseFiles, idx,
                   pipelineIDs, tr, result, results, failed, retResults,
                   retNil>>
    /\ UNCHANGED xVars

\* the deferred function: uninstallIngestPipelines, a failure is only logged
RunDeferred ==
    /\ pc = "defer"
    /\ \E ok \in BOOLEAN :
         /\ ops' = Append(ops, [op |-> "uninstall", arg |-> pipelineIDs,
                                out |-> IF ok THEN "ok" ELSE "error"])
         /\ warned' = ~ok
         /\ retErr' = AfterDeferred(retErr, ok)
    /\ pc' = "returned"
    /\ UNCHANGED <<dir, generate, golden, goldenAtStart, testCaseFiles, idx,
                   pipelineIDs, tr, result, results, failed, retResults,
                   retNil>>
    /\ UNCHANGED xVars

Next ==
    \/ ListTestCaseFiles
    \/ FindDataStreamRoot
    \/ InstallIngestPipelines
    \/ LoadTestCase
    \/ SimulatePipelineProcessing
    \/ VerifyTestCase
    \/ FinishLoop
    \/ RunDeferred

Spec == Init /\ [][Next]_vars

(* --------------------------- report renderers -------------------------- *)

\* an empty Go map
EmptyMap == <<>>

\* the orders in which a range statement can visit the keys S of a map: Go
\* leaves the iteration order of a map unspecified
RangeOrders(S) ==
    {p \in [1..Cardinality(S) -> S] : \A a \in S : \E i \in DOMAIN p : p[i] = a}

\* the sequences whose i-th element is drawn from choices[p[i]]
RECURSIVE Visits(_, _)
Visits(p, choices) ==
    IF p = <<>> THEN {<<>>}
    ELSE {<<h>> \o t : h \in choices[Head(p)], t \in Visits(Tail(p), choices)}

\* the testCase built by reportXUnitFormat from one TestResult
FormatCase(r) ==
    LET failure  == IF r.FailureMsg # EmptyString THEN r.FailureMsg
                    ELSE EmptyString
        failure2 == IF r.FailureDetails # EmptyString
                    THEN failure \o <<": ">> \o r.FailureDetails
                    ELSE failure
    IN [Name |-> r.Name, ClassName |-> EmptyString, Time |-> r.TimeElapsed,
        Error |-> r.ErrorMsg, Failure |-> failure2]

\* tests[testType][Package][DataStream] = append(..., c), the maps and the
\* slice being created when the key is new
PutCase(tests, t, p, d, c) ==
    LET m1 == IF t \in DOMAIN tests THEN tests ELSE tests @@ (t :> EmptyMap)
        m2 == IF p \in DOMAIN m1[t] THEN m1
              ELSE [m1 EXCEPT ![t] = @ @@ (p :> EmptyMap)]
        m3 == IF d \in DOMAIN m2[t][p] THEN m2
              ELSE [m2 EXCEPT ![t][p] = @ @@ (d :> <<>>)]
    IN [m3 EXCEPT ![t][p][d] = Append(@, c)]

\* the first loop of reportXUnitFormat with numFailures counting the cases
\* whose failure text is non-empty after FailureDetails was added
RECURSIVE GroupFormatCountingText(_, _, _)
GroupFormatCountingText(rs, i, acc) ==
    IF i > Len(rs) THEN acc
    ELSE LET r == rs[i]
         IN GroupFormatCountingText(rs, i + 1,
              [tests |-> PutCase(acc.tests, r.TestType, r.Package,
                                 r.DataStream, FormatCase(r)),
               numTests |-> acc.numTests + 1,
               numFailures |-> acc.numFailures
                   + (IF FormatCase(r).Failure # EmptyString THEN 1 ELSE 0),
               numErrors |-> acc.numErrors
                   + (IF r.ErrorMsg # EmptyString THEN 1 ELSE 0)])

\* the first loop of reportXUnitFormat, from result i on
RECURSIVE GroupFormat(_, _, _)
GroupFormat(rs, i, acc) ==
    IF i > Len(rs) THEN acc
    ELSE LET r == rs[i]
         IN GroupFormat(rs, i + 1,
              [tests |-> PutCase(acc.tests, r.TestType, r.Package,
                                 r.DataStream, FormatCase(r)),
               numTests |-> acc.numTests + 1,
               numFailures |-> acc.numFailures
                   + (IF r.FailureMsg # EmptyString THEN 1 ELSE 0),
               numErrors |-> acc.numErrors
                   + (IF r.ErrorMsg # EmptyString THEN 1 ELSE 0)])

\* a testSuite value of package formats
TestSuite(comment, name, n, nf, ne, suites, cases) ==
    [Comment |-> comment, Name |-> name, NumTests |-> n, NumFailures |-> nf,
     NumErrors |-> ne, Suites |-> suites, Cases |-> cases]

\* the data-stream suites the innermost range can build for one package
DsSuitesOf(pkg) ==
    {[i \in 1..Len(p) |->
         TestSuite(<<"test suite for data stream: ", p[i]>>, p[i], 0, 0, 0,
                   <<>>, pkg[p[i]])] : p \in RangeOrders(DOMAIN pkg)}

\* the package suites the middle range can build for one test type
PkgSuitesOf(packages) ==
    LET choices == [q \in DOMAIN packages |->
                      {TestSuite(<<"test suite for package: ", q>>, q, 0, 0,
                                 0, ds, <<>>) : ds \in DsSuitesOf(packages[q])}]
    IN UNION {Visits(p, choices) : p \in RangeOrders(DOMAIN packages)}

\* the ts.Suites the second loop of reportXUnitFormat can build
FormatTrees(g) ==
    LET choices == [t \in DOMAIN g.tests |->
                      {TestSuite(<<"test suite for ", t, " tests">>, t,
                                 g.numTests, g.numFailures, g.numErrors,
                                 pk, <<>>) : pk \in PkgSuitesOf(g.tests[t])}]
    IN UNION {Visits(p, choices) : p \in RangeOrders(DOMAIN g.tests)}

\* The marshalled document is a string: the sequence of its parts, in order.
\* The indentation MarshalIndent adds depends on the nesting depth only and
\* is left out.

\* an attribute of a start tag
Attr(k, v) == <<" ", k, "=\"">> \o v \o <<"\"">>

\* an int attribute with omitempty: left out when zero
IntAttr(k, n) == IF n = 0 THEN <<>> ELSE Attr(k, <<ToString(n)>>)

\* a string element with omitempty: left out when empty
TextElem(tag, text) ==
    IF text = EmptyString THEN <<>>
    ELSE <<"<", tag, ">">> \o text \o <<"</", tag, ">">>

\* encoding/xml on a formats.testCase: ClassName has a malformed tag and is
\* marshalled as an element of that name
MarshalFormatCase(c) ==
    <<"<testcase">> \o Attr("name", c.Name)
    \o Attr("time", <<ToString(c.Time)>>) \o <<">">>
    \o <<"<ClassName>">> \o c.ClassName \o <<"</ClassName>">>
    \o TextElem("error", c.Error)
    \o TextElem("failure", c.Failure)
    \o <<"</testcase>">>

RECURSIVE MarshalFormatCases(_)
MarshalFormatCases(cs) ==
    IF cs = <<>> THEN <<>>
    ELSE MarshalFormatCase(Head(cs)) \o MarshalFormatCases(Tail(cs))

\* encoding/xml on a sequence of formats.testSuite
RECURSIVE MarshalFormatSuites(_)
MarshalFormatSuites(ss) ==
    IF ss = <<>> THEN <<>>
    ELSE LET s == Head(ss)
         IN <<"<testsuite">> \o Attr("name", <<s.Name>>)
            \o IntAttr("tests", s.NumTests)
            \o IntAttr("failures", s.NumFailures)
            \o IntAttr("errors", s.NumErrors)
            \o <<">">>
            \o (IF s.Comment = EmptyString THEN <<>>
                ELSE <<"<!--">> \o s.Comment \o <<"-->">>)
            \o MarshalFormatSuites(s.Suites)
            \o MarshalFormatCases(s.Cases)
            \o <<"</testsuite>">>
            \o MarshalFormatSuites(Tail(ss))

\* xml.Header + xml.MarshalIndent(&ts, "", "  ") of package formats
MarshalFormat(suites) ==
    <<"<?xml version=\"1.0\" encoding=\"UTF-8\"?>", "<testsuites>">>
    \o MarshalFormatSuites(suites)
    \o <<"</testsuites>">>

\* formats.reportXUnitFormat(results)
ReportXUnitFormat ==
    /\ reporter = "reportXUnitFormat"
    /\ Len(xOut) < MaxRenders
    /\ LET g == GroupFormat(xResults, 1,
                    [tests |-> EmptyMap, numTests |-> 0, numFailures |-> 0,
                     numErrors |-> 0])
       IN \E ts \in FormatTrees(g) :
              xOut' = Append(xOut, [tree |-> ts, doc |-> MarshalFormat(ts)])
    /\ UNCHANGED <<xResults, reporter, runVars>>

(* the reporter of package reporters: package => data stream => cases *)

\* the zero value of reporters.testCase and of reporters.testSuite
ZeroCase ==
    [Name |-> EmptyString, Time |-> 0, Error |-> EmptyString,
     Failure |-> EmptyString]

ZeroSuite == [Suites |-> <<>>, Cases |-> <<>>]

\* make([]T, n): n zero values
RECURSIVE MakeSlice(_, _)
MakeSlice(zero, n) == IF n = 0 THEN <<>> ELSE <<zero>> \o MakeSlice(zero, n - 1)

\* the testCase built by ReportXUnit from one TestResult
LegacyCase(r) ==
    [Name |-> r.Name, Time |-> r.TimeElapsed, Error |-> r.ErrorMsg,
     Failure |-> r.FailureMsg]

\* packages[Package][DataStream] = append(..., c); a new data stream starts
\* from make([]testCase, 1)
PutLegacyCase(packages, p, d, c) ==
    LET m1 == IF p \in DOMAIN packages THEN packages
              ELSE packages @@ (p :> EmptyMap)
        m2 == IF d \in DOMAIN m1[p] THEN m1
              ELSE [m1 EXCEPT ![p] = @ @@ (d :> MakeSlice(ZeroCase, 1))]
    IN [m2 EXCEPT ![p][d] = Append(@, c)]

\* the first loop of ReportXUnit, from result i on
RECURSIVE GroupLegacy(_, _, _)
GroupLegacy(rs, i, acc) ==
    IF i > Len(rs) THEN acc
    ELSE LET r == rs[i]
         IN GroupLegacy(rs, i + 1,
              [packages |-> PutLegacyCase(acc.packages, r.Package,
                                          r.DataStream, LegacyCase(r)),
               numPackages |-> acc.numPackages
                   + (IF r.Package \in DOMAIN acc.packages THEN 0 ELSE 1)])

\* the pkgSuite.Suites the inner range can build for one package
LegacyDsSuitesOf(pkg) ==
    {MakeSlice(ZeroSuite, 1)
       \o [i \in 1..Len(p) |-> [Suites |-> <<>>, Cases |-> pkg[p[i]]]] :
     p \in RangeOrders(DOMAIN pkg)}

\* the ts.Suites the second loop of ReportXUnit can build
LegacyTrees(g) ==
    LET choices == [q \in DOMAIN g.packages |->
                      {[Suites |-> ds, Cases |-> <<>>] :
                          ds \in LegacyDsSuitesOf(g.packages[q])}]
    IN {MakeSlice(ZeroSuite, g.numPackages) \o v :
          v \in UNION {Visits(p, choices) :
                          p \in RangeOrders(DOMAIN g.packages)}}

\* encoding/xml on a reporters.testCase
MarshalLegacyCase(c) ==
    <<"<testcase">> \o Attr("Name", c.Name)
    \o Attr("Time", <<ToString(c.Time)>>) \o <<">">>
    \o TextElem("Error", c.Error)
    \o TextElem("Failure", c.Failure)
    \o <<"</testcase>">>

RECURSIVE MarshalLegacyCases(_)
MarshalLegacyCases(cs) ==
    IF cs = <<>> THEN <<>>
    ELSE MarshalLegacyCase(Head(cs)) \o MarshalLegacyCases(Tail(cs))

\* encoding/xml on a sequence of reporters.testSuite
RECURSIVE MarshalLegacySuites(_)
MarshalLegacySuites(ss) ==
    IF ss = <<>> THEN <<>>
    ELSE LET s == Head(ss)
         IN <<"<testsuite>">>
            \o MarshalLegacySuites(s.Suites)
            \o MarshalLegacyCases(s.Cases)
            \o <<"</testsuite>">>
            \o MarshalLegacySuites(Tail(ss))

\* xml.Header + xml.MarshalIndent(&ts, "", "  ") of package reporters
MarshalLegacy(suites) ==
    <<"<?xml version=\"1.0\" encoding=\"UTF-8\"?>", "<testsuites>">>
    \o MarshalLegacySuites(suites)
    \o <<"</testsuites>">>

\* reporters.ReportXUnit(results)
ReportXUnit ==
    /\ reporter = "ReportXUnit"
    /\ Len(xOut) < MaxRenders
    /\ LET g == GroupLegacy(xResults, 1,
                    [packages |-> EmptyMap, numPackages |-> 0])
       IN \E ts \in LegacyTrees(g) :
              xOut' = Append(xOut, [tree |-> ts, doc |-> MarshalLegacy(ts)])
    /\ UNCHANGED <<xResults, reporter, runVars>>

\* the TestResult sequences handed to a reporter
XResult(i, key, e, f, d) ==
    [TestType |-> key[1], Package |-> key[2], DataStream |-> key[3],
     Name |-> TestCaseName(i), TimeElapsed |-> 0, ErrorMsg |-> e,
     FailureMsg |-> f, FailureDetails |-> d]

\* the (ErrorMsg, FailureMsg, FailureDetails) a Result can carry
ResultTexts ==
    {<<EmptyString, EmptyString, EmptyString>>,
     <<<<"error">>, EmptyString, EmptyString>>,
     <<EmptyString, <<"failure">>, EmptyString>>,
     <<EmptyString, <<"failure">>, <<"details">>>>,
     <<EmptyString, EmptyString, <<"details">>>>}

\* the sequence of n TestResults with the keys and texts c gives them
XInput(n, c) ==
    [i \in 1..n |-> XResult(i, c[i][1], c[i][2][1], c[i][2][2], c[i][2][3])]

\* the state in which a reporter is called: no run of the runner is going on
XInit ==
    /\ \E n \in 0..MaxResults :
         \E c \in [1..n -> GroupKeys \X ResultTexts] : xResults = XInput(n, c)
    /\ reporter \in Reporters
    /\ xOut = <<>>
    /\ dir = <<>>
    /\ generate = FALSE
    /\ golden = <<>>
    /\ goldenAtStart = <<>>
    /\ pc = "idle"
    /\ testCaseFiles = <<>>
    /\ idx = 1
    /\ pipelineIDs = {}
    /\ tr = NewTestResult
    /\ result = "none"
    /\ results = <<>>
    /\ failed = FALSE
    /\ retResults = <<>>
    /\ retNil = TRUE
    /\ retErr = NilErr
    /\ ops = <<>>
    /\ warned = FALSE

XNext ==
    \/ ReportXUnitFormat
    \/ ReportXUnit

SpecXUnit == XInit /\ [][XNext]_vars

(* ------------------------- history predicates -------------------------- *)

\* the install succeeded
Installed == \E i \in DOMAIN ops : ops[i].op = "install" /\ ops[i].out = "ok"

\* operation o was issued for file f with outcome out
Did(o, f, out) ==
    \E i \in DOMAIN ops : ops[i].op = o /\ ops[i].out = out /\ ops[i].arg = f

\* number of operations o issued so far
NumOps(o) == Cardinality({i \in DOMAIN ops : ops[i].op = o})

\* files of the folder as a set
Discovered == {testCaseFiles[k] : k \in DOMAIN testCaseFiles}

Mismatched(f) == Did("compare", f, "mismatch")

Matched(f) == Did("compare", f, "match")

\* every discovered case went through load, simulate and comparison
AllProcessed ==
    /\ Installed
    /\ \A f \in Discovered :
         /\ Did("load", f, "ok")
         /\ Did("simulate", f, "ok")
         /\ Matched(f) \/ Mismatched(f)

\* the returned error is one of the wrapped fatal errors of the loop
FatalErr ==
    /\ retErr # NilErr
    /\ retErr[1] \in {"loading test case failed",
                      "simulating pipeline processing failed",
                      "verifying test result failed"}

\* entries of the returned sequence for file f
EntriesOf(f) ==
    {k \in DOMAIN retResults : retResults[k].Name = TestCaseName(f)}

(* ------------------------------ claims --------------------------------- *)

\* C1: when the install succeeded, the uninstall of the installed pipeline
\* identifiers has been executed by the time Run has returned, on every exit
\* path (normal, with mismatches, fatal abort).
C1_UninstallOnEveryExit ==
    (pc = "returned" /\ Installed) =>
        \E i \in DOMAIN ops :
            /\ ops[i].op = "uninstall"
            /\ ops[i].arg = pipelineIDs

C1_Witness ==
    /\ pc = "returned"
    /\ Installed
    /\ FatalErr
    /\ retErr[1] = "verifying test result failed"
    /\ NumOps("uninstall") = 1

\* C2: the returned sequence has exactly one entry per file attempted, in
\* discovery order, including the entry of the case that aborted the run.
C2_OneEntryPerAttempt ==
    (pc = "returned" /\ Installed) =>
        /\ Len(retResults) = NumOps("load")
        /\ \A k \in DOMAIN retResults :
               retResults[k].Name \in
                   {EmptyString, TestCaseName(testCaseFiles[k])}

\* C3: a case whose comparison returned the mismatch sentinel has an entry
\* with non-empty FailureMsg in the returned sequence.
C3_MismatchHasFailureMsg ==
    pc = "returned" =>
        \A f \in Discovered :
            Mismatched(f) =>
                \E k \in EntriesOf(f) : retResults[k].FailureMsg # EmptyString

\* C4: a mismatch does not abort the run: the operation that follows a
\* mismatching comparison is the load of the next discovered case (or the
\* uninstall when the case was the last one), and the returned sequence holds
\* the results of all the cases processed.
C4_MismatchContinues ==
    /\ \A i \in DOMAIN ops :
         (ops[i].op = "compare" /\ ops[i].out = "mismatch") =>
            \E k \in DOMAIN testCaseFiles :
               /\ testCaseFiles[k] = ops[i].arg
               /\ IF i < Len(ops)
                  THEN IF k < Len(testCaseFiles)
                       THEN /\ ops[i + 1].op = "load"
                            /\ ops[i + 1].arg = testCaseFiles[k + 1]
                       ELSE ops[i + 1].op = "uninstall"
                  ELSE \/ pc = "loop" /\ idx = k + 1
                       \/ /\ pc = "defer"
                          /\ k = Len(testCaseFiles)
                          /\ retErr = ErrAtLeastOneFailed
    /\ (pc = "returned" /\ \E f \in Discovered : Mismatched(f)) =>
         /\ \A f \in Discovered :
               Did("load", f, "ok") => EntriesOf(f) # {}
         /\ ~FatalErr => /\ AllProcessed
                         /\ Len(retResults) = Len(testCaseFiles)

C4_Witness ==
    /\ pc = "returned"
    /\ Len(testCaseFiles) >= 2
    /\ Mismatched(testCaseFiles[1])
    /\ Matched(testCaseFiles[2])
    /\ Len(retResults) >= 2

\* C5: a failed load aborts the run at once (no later case is attempted), the
\* returned sequence ends with the entry of the failing case carrying a
\* non-empty ErrorMsg, and the load error is returned.
C5_LoadFailureAborts ==
    (pc = "returned" /\ \E f \in Discovered : Did("load", f, "error")) =>
        /\ ops[Len(ops) - 1].op = "load"
        /\ retErr # NilErr
        /\ retErr[1] = "loading test case failed"
        /\ Len(retResults) = NumOps("load")
        /\ retResults[Len(retResults)].ErrorMsg # EmptyString

\* C6: a failed simulate call aborts the run at once, the entry of that case
\* in the returned sequence carries the error text, and a non-nil error is
\* returned.
C6_SimulateFailureAborts ==
    \A f \in Discovered :
        (pc = "returned" /\ Did("simulate", f, "error")) =>
            /\ ops[Len(ops) - 1] = [op |-> "simulate", arg |-> f,
                                    out |-> "error"]
            /\ retErr # NilErr
            /\ \E k \in EntriesOf(f) : retResults[k].ErrorMsg = retErr

\* C7: a case whose load, simulate and comparison all succeeded with a match
\* has an entry with empty ErrorMsg and empty FailureMsg.
C7_MatchHasNoMessages ==
    pc = "returned" =>
        \A f \in Discovered :
            Matched(f) =>
                /\ EntriesOf(f) # {}
                /\ \A k \in EntriesOf(f) :
                       /\ retResults[k].ErrorMsg = EmptyString
                       /\ retResults[k].FailureMsg = EmptyString

C7_Witness ==
    /\ pc = "returned"
    /\ retErr = NilErr
    /\ Len(testCaseFiles) >= 2
    /\ \A f \in Discovered : Matched(f) /\ EntriesOf(f) # {}

\* C8: when every discovered case was processed without a fatal abort, Run
\* returns the "at least one test case failed" error with the full sequence
\* iff some case mismatched, and a nil error otherwise; after a fatal abort it
\* returns neither of the two.
C8_RunOutcome ==
    pc = "returned" =>
        IF AllProcessed
        THEN /\ retErr = ErrAtLeastOneFailed <=>
                    \E f \in Discovered : Mismatched(f)
             /\ retErr = NilErr <=> ~ \E f \in Discovered : Mismatched(f)
             /\ ~retNil
             /\ Len(retResults) = Len(testCaseFiles)
             /\ \A k \in DOMAIN retResults :
                    retResults[k].Name = TestCaseName(testCaseFiles[k])
        ELSE retErr \notin {NilErr, ErrAtLeastOneFailed}

C8_Witness ==
    /\ pc = "returned"
    /\ AllProcessed
    /\ Len(testCaseFiles) >= 2
    /\ Matched(testCaseFiles[1])
    /\ Mismatched(testCaseFiles[2])
    /\ retErr = ErrAtLeastOneFailed

\* C9: in generate mode every comparison directly follows a write of the same
\* case's golden file, no comparison reports a mismatch, and Run does not
\* return the "at least one test case failed" error.
C9_GenerateNeverMismatches ==
    generate =>
        /\ \A i \in DOMAIN ops :
             ops[i].op = "compare" =>
                /\ i > 1
                /\ ops[i - 1] = [op |-> "write", arg |-> ops[i].arg,
                                 out |-> "ok"]
                /\ ops[i].out # "mismatch"
        /\ ~failed
        /\ pc = "returned" => retErr # ErrAtLeastOneFailed

C9_Witness ==
    /\ generate
    /\ pc = "returned"
    /\ retErr = NilErr
    /\ \E f \in Discovered :
         /\ goldenAtStart[f] \in {"a", "b"}
         /\ golden[f] \in {"a", "b"}
         /\ golden[f] # goldenAtStart[f]
         /\ Matched(f)

\* C10: rendering the same TestResult sequence twice with the xUnit reporter
\* yields the same document, whatever the sequence.
C10_RenderTwiceIdentical ==
    \A i \in DOMAIN xOut, j \in DOMAIN xOut : xOut[i].doc = xOut[j].doc

(* --------------------------- report predicates ------------------------- *)

\* the renders made by reportXUnitFormat
FormatRenders ==
    IF reporter = "reportXUnitFormat" THEN DOMAIN xOut ELSE {}

\* number of input Results satisfying a test on one of their texts
NumWithFailureMsg ==
    Cardinality({i \in DOMAIN xResults : xResults[i].FailureMsg # EmptyString})

NumWithErrorMsg ==
    Cardinality({i \in DOMAIN xResults : xResults[i].ErrorMsg # EmptyString})

\* the test types of the input
InputTypes == {xResults[i].TestType : i \in DOMAIN xResults}

\* C11: the counts attached to every test-type suite node are the number of
\* all input Results, of those with non-empty FailureMsg and of those with
\* non-empty ErrorMsg, over the entire input sequence.
C11_GlobalCounts ==
    \A n \in FormatRenders :
        \A k \in DOMAIN xOut[n].tree :
            /\ xOut[n].tree[k].NumTests = Len(xResults)
            /\ xOut[n].tree[k].NumFailures = NumWithFailureMsg
            /\ xOut[n].tree[k].NumErrors = NumWithErrorMsg

C11_Witness ==
    /\ FormatRenders # {}
    /\ Cardinality(InputTypes) = 2
    /\ Len(xOut[1].tree) = 2
    /\ NumWithFailureMsg = 1
    /\ \E i \in DOMAIN xResults :
         /\ xResults[i].FailureMsg = EmptyString
         /\ xResults[i].FailureDetails # EmptyString

\* the input Results with the given grouping keys, in input order
ResultsOfGroup(t, p, d) ==
    LET InGroup(r) == r.TestType = t /\ r.Package = p /\ r.DataStream = d
    IN SelectSeq(xResults, InGroup)

\* the input Results of package p and data stream d, of any test type
ResultsOfStream(p, d) ==
    LET InGroup(r) == r.Package = p /\ r.DataStream = d
    IN SelectSeq(xResults, InGroup)

PackagesOfType(t) ==
    {xResults[i].Package : i \in {j \in DOMAIN xResults :
                                     xResults[j].TestType = t}}

StreamsOf(t, p) ==
    {xResults[i].DataStream :
        i \in {j \in DOMAIN xResults :
                  xResults[j].TestType = t /\ xResults[j].Package = p}}

InputPackages == {xResults[i].Package : i \in DOMAIN xResults}

StreamsOfPackage(p) ==
    {xResults[i].DataStream :
        i \in {j \in DOMAIN xResults : xResults[j].Package = p}}

\* the names of a sequence of suites are distinct and are exactly the set S
NamesAre(suites, S) ==
    /\ Len(suites) = Cardinality(S)
    /\ {suites[k].Name : k \in DOMAIN suites} = S

\* a tree of reportXUnitFormat has one node per group key at every level and
\* one case per Result of the group, in input order, in its data-stream nodes
FormatTreeExact(tree) ==
    /\ NamesAre(tree, InputTypes)
    /\ \A a \in DOMAIN tree :
         LET ts == tree[a]
         IN /\ ts.Cases = <<>>
            /\ NamesAre(ts.Suites, PackagesOfType(ts.Name))
            /\ \A b \in DOMAIN ts.Suites :
                 LET ps == ts.Suites[b]
                 IN /\ ps.Cases = <<>>
                    /\ NamesAre(ps.Suites, StreamsOf(ts.Name, ps.Name))
                    /\ \A c \in DOMAIN ps.Suites :
                         LET ds  == ps.Suites[c]
                             grp == ResultsOfGroup(ts.Name, ps.Name, ds.Name)
                         IN /\ ds.Suites = <<>>
                            /\ ds.Cases =
                                 [i \in DOMAIN grp |-> FormatCase(grp[i])]

\* a tree of ReportXUnit (its suites carry no name): one package node per
\* package, in each one data-stream node per data stream of that package,
\* in each one case per Result of the group, in input order
LegacyTreeExact(tree) ==
    /\ Len(tree) = Cardinality(InputPackages)
    /\ \A a \in DOMAIN tree :
         /\ tree[a].Cases = <<>>
         /\ \E p \in InputPackages :
              /\ Len(tree[a].Suites) = Cardinality(StreamsOfPackage(p))
              /\ \A b \in DOMAIN tree[a].Suites :
                   /\ tree[a].Suites[b].Suites = <<>>
                   /\ \E d \in StreamsOfPackage(p) :
                        LET grp == ResultsOfStream(p, d)
                        IN tree[a].Suites[b].Cases =
                             [i \in DOMAIN grp |-> LegacyCase(grp[i])]

\* the trees of reportXUnitFormat alone have the shape of the claim
FormatTreesExact == \A n \in FormatRenders : FormatTreeExact(xOut[n].tree)

\* C12: in the report tree each data-stream node holds exactly one case
\* element per input Result with the node's grouping keys, in input order,
\* and every suite level holds exactly one child per distinct group key: no
\* placeholder cases or suites.
C12_TreeHoldsExactlyTheResults ==
    \A n \in DOMAIN xOut :
        IF reporter = "reportXUnitFormat"
        THEN FormatTreeExact(xOut[n].tree)
        ELSE LegacyTreeExact(xOut[n].tree)

\* C13: when the listing, the data-stream root lookup or the install fails,
\* Run returns a non-nil error and no results, no test case is loaded or
\* simulated, and no uninstall is issued.
C13_EarlyFailureReturnsNothing ==
    (pc = "returned" /\ ~Installed) =>
        /\ retErr # NilErr
        /\ retErr[1] \in {"listing test case definitions failed",
                          "locating data_stream root failed",
                          "data stream root not found",
                          "installing ingest pipelines failed"}
        /\ retNil
        /\ retResults = <<>>
        /\ NumOps("load") = 0
        /\ NumOps("simulate") = 0
        /\ NumOps("uninstall") = 0

C13_Witness ==
    /\ pc = "returned"
    /\ ~Installed
    /\ Len(ListFiles(dir, 1)) = 2
    /\ ops = <<>>
    /\ retErr[1] = "installing ingest pipelines failed"

\* C14: a failure of the uninstall never changes what Run returns: the step
\* of the deferred function leaves the returned sequence and the returned
\* error as the return statement set them, whether the uninstall succeeds or
\* fails.
C14_TeardownKeepsResult ==
    [][pc = "defer" =>
          /\ retResults' = retResults
          /\ retNil' = retNil
          /\ retErr' = retErr]_vars

C14_Witness ==
    /\ pc = "returned"
    /\ warned
    /\ ops[Len(ops)].op = "uninstall"
    /\ ops[Len(ops)].out = "error"
    /\ retErr = NilErr
    /\ Len(retResults) = 2

\* the verification of file f ended with an error other than the mismatch
VerifyFailed(f) == Did("compare", f, "error") \/ Did("write", f, "error")

\* C15: a verification error other than the mismatch sentinel aborts the run
\* without attempting a later case, Run returns a non-nil error that is not
\* the "at least one test case failed" error, and the entry of the aborting
\* case is in the returned sequence with a non-empty ErrorMsg.
C15_VerifyErrorIsFatal ==
    \A f \in Discovered :
        (pc = "returned" /\ VerifyFailed(f)) =>
            /\ ops[Len(ops) - 1].op \in {"compare", "write"}
            /\ ops[Len(ops) - 1].arg = f
            /\ ops[Len(ops) - 1].out = "error"
            /\ retErr \notin {NilErr, ErrAtLeastOneFailed}
            /\ \E k \in EntriesOf(f) : retResults[k].ErrorMsg # EmptyString

\* a TestResult carries at most one of the two outcome texts
AtMostOneText(t) == t.ErrorMsg = EmptyString \/ t.FailureMsg = EmptyString

\* C16: every TestResult of a run has at most one of ErrorMsg and FailureMsg
\* non-empty: the entries of the returned sequence on every exit path, the
\* entries collected so far, and the value tr the current iteration builds.
C16_AtMostOneOutcomeText ==
    /\ AtMostOneText(tr)
    /\ \A k \in DOMAIN results : AtMostOneText(results[k])
    /\ \A k \in DOMAIN retResults : AtMostOneText(retResults[k])

\* a mismatch of the first case followed by a simulation error of the second
C16_Witness ==
    /\ pc = "returned"
    /\ Len(retResults) = 2
    /\ Mismatched(testCaseFiles[1])
    /\ Did("simulate", testCaseFiles[2], "error")
    /\ tr.ErrorMsg # EmptyString

\* C17: Run returns a nil error only if every discovered test-case file was
\* loaded, simulated and compared and every comparison reported a match, and
\* then the returned sequence has exactly one entry per discovered file.
C17_NilOnlyIfAllMatched ==
    (pc = "returned" /\ retErr = NilErr) =>
        /\ AllProcessed
        /\ \A f \in Discovered : Matched(f) /\ ~Mismatched(f)
        /\ \A f \in Discovered : Cardinality(EntriesOf(f)) = 1
        /\ Len(retResults) = Len(testCaseFiles)

\* a nil return of a run over two cases compared against existing golden files
C17_Witness ==
    /\ pc = "returned"
    /\ retErr = NilErr
    /\ ~generate
    /\ NumOps("compare") = 2
    /\ Len(retResults) = 2

\* C18: with generate mode off a run never writes a golden file: no write is
\* issued and the golden files are, at every point of the run, those the run
\* started with.
C18_NoWriteWithoutGenerate ==
    ~generate => (golden = goldenAtStart /\ NumOps("write") = 0)

\* a finished run without generate mode that compared a case with its golden
\* file and found a mismatch
C18_Witness ==
    /\ pc = "returned"
    /\ ~generate
    /\ \E f \in Discovered : Mismatched(f) /\ golden[f] = goldenAtStart[f]

\* positions of the history holding an operation o
OpsAt(o) == {i \in DOMAIN ops : ops[i].op = o}

\* C19: within one run that installed its pipelines the uninstall is issued
\* exactly once (never more than once, and once by the time Run has
\* returned), with exactly the pipeline identifiers the install returned; it
\* is the last operation of the run, so no load, simulate, golden-file write
\* or comparison follows it, and each of these is preceded by the successful
\* install.
C19_UninstallOnceAndLast ==
    /\ Cardinality(OpsAt("uninstall")) <= 1
    /\ (pc = "returned" /\ Installed) => Cardinality(OpsAt("uninstall")) = 1
    /\ \A i \in OpsAt("uninstall") :
          /\ i = Len(ops)
          /\ \E j \in OpsAt("install") :
                j < i /\ ops[j].out = "ok" /\ ops[j].arg = ops[i].arg
    /\ \A i \in DOMAIN ops :
          ops[i].op \in {"load", "simulate", "write", "compare"} =>
              \E j \in OpsAt("install") : j < i /\ ops[j].out = "ok"

\* a returned run that installed two pipelines, rewrote a golden file and
\* compared it
C19_Witness ==
    /\ pc = "returned"
    /\ pipelineIDs = {"default", "sub"}
    /\ NumOps("write") >= 1
    /\ NumOps("compare") >= 1
    /\ ops[Len(ops)].op = "uninstall"

\* the case elements of a report tree, each named by its position
CaseElements(tree) ==
    {<<k, p, d, c>> \in
        (DOMAIN tree) \X (1..MaxResults) \X (1..MaxResults)
            \X (1..MaxResults) :
        /\ p \in DOMAIN tree[k].Suites
        /\ d \in DOMAIN tree[k].Suites[p].Suites
        /\ c \in DOMAIN tree[k].Suites[p].Suites[d].Cases}

\* the case element at a position
CaseAt(tree, e) == tree[e[1]].Suites[e[2]].Suites[e[3]].Cases[e[4]]

\* number of case elements of a tree carrying failure text, error text
NumFailureElements(tree) ==
    Cardinality({e \in CaseElements(tree) :
                    CaseAt(tree, e).Failure # EmptyString})

NumErrorElements(tree) ==
    Cardinality({e \in CaseElements(tree) :
                    CaseAt(tree, e).Error # EmptyString})

\* C20: in the rendered report the failure count attached to every test-type
\* suite equals the number of case elements of the report that carry
\* non-empty failure text, and the error count equals the number of case
\* elements that carry non-empty error text, for every input sequence.
C20_CountsMatchCaseElements ==
    \A n \in FormatRenders :
        \A k \in DOMAIN xOut[n].tree :
            /\ xOut[n].tree[k].NumErrors = NumErrorElements(xOut[n].tree)
            /\ xOut[n].tree[k].NumFailures = NumFailureElements(xOut[n].tree)

====
